---------------------------- MODULE Spec2Model ----------------------------
(***************************************************************************)
(* Model of the three release scripts of yamis:                            *)
(*   generate_cov.py  - the kcov coverage pipeline                         *)
(*   ci_build.py      - build one target, archive it, write its sha256     *)
(*   zip_releases.py  - zip the pre-built binaries of the static targets   *)
(*                                                                         *)
(* A string is a sequence of atoms (a character, or a literal the code     *)
(* never looks into); a filesystem path is a sequence of strings, one per  *)
(* component.  One behaviour is one run of one script; Init chooses it.    *)
(***************************************************************************)
EXTENDS Integers, Sequences, FiniteSets, TLC

VARIABLES
    script,         \* which script this run executes
    pc,             \* the statement the run is at; "done" / "failed" at exit
    err,            \* "" or the reason the run stopped
    argv,           \* the command-line arguments of the run
    fs,             \* the files and directories the scripts read and write
    calls,          \* the subprocess.run invocations made so far, in order
    writes,         \* the output paths written so far, with the writing step
    result,         \* generate_cov: the captured stdout + stderr
    binaries,       \* generate_cov: the discovered executables
    dirs_to_merge,  \* generate_cov: the per-binary output directories
    i,              \* loop index: enumerate(binaries) / position in BINARIES
    k               \* loop index over the extra files of the open archive

vars == <<script, pc, err, argv, fs, calls, writes, result, binaries,
          dirs_to_merge, i, k>>

-----------------------------------------------------------------------------
(* Python string operations, as the scripts use them *)

\* s.startswith(p)
StartsWith(s, p) == Len(s) >= Len(p) /\ SubSeq(s, 1, Len(p)) = p

\* "sub in s"
Contains(sub, s) ==
    \E j \in 1..(Len(s) - Len(sub) + 1) : SubSeq(s, j, j + Len(sub) - 1) = sub

\* s.split(c) with an explicit one-character separator: empty pieces are kept
RECURSIVE SplitOn(_, _)
SplitOn(s, c) ==
    IF \A j \in 1..Len(s) : s[j] # c
    THEN <<s>>
    ELSE LET j == CHOOSE x \in 1..Len(s) :
                      s[x] = c /\ \A y \in 1..(x - 1) : s[y] # c
         IN  <<SubSeq(s, 1, j - 1)>> \o SplitOn(SubSeq(s, j + 1, Len(s)), c)

RECURSIVE LStrip(_, _)
LStrip(s, chars) ==
    IF s # <<>> /\ s[1] \in chars THEN LStrip(Tail(s), chars) ELSE s

RECURSIVE RStrip(_, _)
RStrip(s, chars) ==
    IF s # <<>> /\ s[Len(s)] \in chars
    THEN RStrip(SubSeq(s, 1, Len(s) - 1), chars)
    ELSE s

\* s.strip(chars)
Strip(s, chars) == RStrip(LStrip(s, chars), chars)

\* the characters s.strip() removes
Whitespace == {" ", "\t", "\n", "\r"}

Digit(d) == <<"0", "1", "2", "3", "4", "5", "6", "7", "8", "9">>[d + 1]

\* str(n) for n >= 0
RECURSIVE Str(_)
Str(n) == IF n < 10 THEN <<Digit(n)>> ELSE Str(n \div 10) \o <<Digit(n % 10)>>

\* os.path.basename of a path
Basename(p) == p[Len(p)]

-----------------------------------------------------------------------------
(* generate_cov.py *)

COV_OUT_DIR == <<"target_cov/cov">>
TEST_DIR == <<"target_cov">>

Executable == <<"E", "x", "e", "c", "u", "t", "a", "b", "l", "e">>

\* the list comprehension of line 24 over the generator of line 23
ParseBinaries(text) ==
    LET raw   == SplitOn(text, "\n")
        lines == [j \in 1..Len(raw) |-> Strip(raw[j], Whitespace)]
        kept  == SelectSeq(lines, LAMBDA line : StartsWith(line, Executable))
    IN  [j \in 1..Len(kept) |->
            LET toks == SplitOn(kept[j], " ")
            IN  Strip(toks[Len(toks)], {")", "("})]

\* the output directory without the index of the binary
CovOutShared(n) == COV_OUT_DIR \o <<"_">>

\* out = COV_OUT_DIR + "_" + str(i)
CovOut(n) == COV_OUT_DIR \o <<"_">> \o Str(n)

-----------------------------------------------------------------------------
(* The captured build output the model draws from *)

MaxLines == 2

SP == <<" ">>
TAB == <<"\t">>
PathP == <<"(", "p", ")">>
PathQ == <<"q">>

CR == <<"\r">>

Tokens == {SP, TAB, PathP}

Tails == {<<>>} \cup Tokens \cup {a \o b : a \in Tokens, b \in Tokens}

\* lines that start with the marker, an indented one with trailing blanks, one
\* ending in a carriage return, and lines that do not start with the marker
Lines ==
    {Executable \o t : t \in Tails}
        \cup {SP \o Executable \o SP \o PathQ \o TAB,
              Executable \o SP \o PathQ \o SP \o PathP \o CR,
              PathQ \o SP \o Executable \o SP \o PathP,
              SP \o PathP,
              <<>>}

RECURSIVE JoinLines(_)
JoinLines(ls) ==
    IF ls = <<>> THEN <<>>
    ELSE IF Len(ls) = 1 THEN ls[1]
    ELSE ls[1] \o <<"\n">> \o JoinLines(Tail(ls))

Texts ==
    UNION {{JoinLines(ls) : ls \in [1..n -> Lines]} : n \in 1..MaxLines}

-----------------------------------------------------------------------------
(* What the runs record: subprocess invocations and output paths written *)

\* one subprocess.run: its argument list and the exit status it returned
Call(args, rc) == [args |-> args, rc |-> rc]

\* one output path, and the step (with its loop index) that wrote it
Write(step, n, path) == [step |-> step, n |-> n, path |-> path]

\* line 9: subprocess.run("rm -R target_cov", shell=True), exit status unchecked
CovReset ==
    /\ script = "generate_cov" /\ pc = "reset"
    /\ \E rc \in {0, 1} :
          calls' = Append(calls, Call(<<<<"rm -R ">> \o TEST_DIR>>, rc))
    /\ pc' = "build"
    /\ UNCHANGED <<script, err, argv, fs, writes, result, binaries,
                   dirs_to_merge, i, k>>

\* the test build without check=True: its exit status is ignored
CovBuildUnchecked ==
    /\ script = "generate_cov" /\ pc = "build"
    /\ \E rc \in {0, 1} :
          calls' = Append(calls,
              Call(<<<<"cargo">>, <<"test">>, <<"--no-run">>,
                     <<"--target-dir">>, TEST_DIR>>, rc))
    /\ \E text \in Texts : result' = text
    /\ pc' = "parse"
    /\ UNCHANGED <<script, err, argv, fs, writes, binaries, dirs_to_merge, i, k>>

\* lines 13-20: cargo test --no-run, check=True, output captured
CovBuild ==
    /\ script = "generate_cov" /\ pc = "build"
    /\ \E rc \in {0, 1} :
          /\ calls' = Append(calls,
                 Call(<<<<"cargo">>, <<"test">>, <<"--no-run">>,
                        <<"--target-dir">>, TEST_DIR>>, rc))
          /\ IF rc = 0
             THEN /\ \E text \in Texts : result' = text
                  /\ pc' = "parse" /\ err' = err
             ELSE /\ pc' = "failed" /\ err' = "CalledProcessError"
                  /\ result' = result
    /\ UNCHANGED <<script, argv, fs, writes, binaries, dirs_to_merge, i, k>>

\* the discovery without the exit(1) on an empty list
CovParseNoExit ==
    /\ script = "generate_cov" /\ pc = "parse"
    /\ binaries' = ParseBinaries(result)
    /\ pc' = IF Len(binaries') = 0 THEN "merge" ELSE "run"
    /\ dirs_to_merge' = <<>>
    /\ i' = 0
    /\ UNCHANGED <<script, err, argv, fs, calls, writes, result, k>>

\* lines 23-33: find the executables, exit(1) when there is none
CovParse ==
    /\ script = "generate_cov" /\ pc = "parse"
    /\ binaries' = ParseBinaries(result)
    /\ IF Len(binaries') = 0
       THEN pc' = "failed" /\ err' = "exit(1)"
       ELSE pc' = "run" /\ err' = err
    /\ dirs_to_merge' = <<>>
    /\ i' = 0
    /\ UNCHANGED <<script, argv, fs, calls, writes, result, k>>

\* the loop body without check=True: a failed coverage run does not stop the loop
CovRunUnchecked ==
    /\ script = "generate_cov" /\ pc = "run"
    /\ LET out == CovOut(i) IN
       /\ dirs_to_merge' = Append(dirs_to_merge, out)
       /\ writes' = Append(writes, Write("kcov", i, out))
       /\ \E rc \in {0, 1} :
             calls' = Append(calls,
                 Call(<<<<"kcov">>, <<"--verify">>,
                        <<"--exclude-pattern=/.cargo,/usr/lib">>,
                        out, binaries[i + 1]>>, rc))
    /\ i' = i + 1
    /\ pc' = IF i + 1 < Len(binaries) THEN "run" ELSE "merge"
    /\ UNCHANGED <<script, err, argv, fs, result, binaries, k>>

\* lines 34-37: one iteration of the loop over enumerate(binaries)
CovRun ==
    /\ script = "generate_cov" /\ pc = "run"
    /\ LET out == CovOut(i) IN
       /\ dirs_to_merge' = Append(dirs_to_merge, out)
       /\ writes' = Append(writes, Write("kcov", i, out))
       /\ \E rc \in {0, 1} :
             /\ calls' = Append(calls,
                    Call(<<<<"kcov">>, <<"--verify">>,
                           <<"--exclude-pattern=/.cargo,/usr/lib">>,
                           out, binaries[i + 1]>>, rc))
             /\ IF rc # 0
                THEN pc' = "failed" /\ err' = "CalledProcessError" /\ i' = i
                ELSE /\ i' = i + 1
                     /\ pc' = IF i + 1 < Len(binaries) THEN "run" ELSE "merge"
                     /\ err' = err
    /\ UNCHANGED <<script, argv, fs, result, binaries, k>>

\* line 39: kcov --merge COV_OUT_DIR *dirs_to_merge
CovMerge ==
    /\ script = "generate_cov" /\ pc = "merge"
    /\ writes' = Append(writes, Write("merge", 0, COV_OUT_DIR))
    /\ \E rc \in {0, 1} :
          /\ calls' = Append(calls,
                 Call(<<<<"kcov">>, <<"--merge">>, COV_OUT_DIR>> \o dirs_to_merge, rc))
          /\ IF rc = 0
             THEN pc' = "done" /\ err' = err
             ELSE pc' = "failed" /\ err' = "CalledProcessError"
    /\ UNCHANGED <<script, argv, fs, result, binaries, dirs_to_merge, i, k>>

-----------------------------------------------------------------------------
(* The filesystem: a function from the paths that exist to what is there *)

NoFiles == [p \in {} |-> 0]

Dir == [kind |-> "dir"]
File == [kind |-> "file"]

\* an archive being written: its entry names in order, and whether it is still
\* open, was closed by a completed with-block, or by one an exception left
Archive(format, entries, state) ==
    [kind |-> "archive", format |-> format, entries |-> entries, state |-> state]

Put(f, p, v) == [q \in DOMAIN f \cup {p} |-> IF q = p THEN v ELSE f[q]]

Exists(p) == p \in DOMAIN fs

\* ZipFile.write(path, arcname) / TarFile.add(path, arcname) on an open archive
AddEntry(p, arcname) ==
    Put(fs, p, Archive(fs[p].format, Append(fs[p].entries, arcname), "open"))

\* leaving the with-block: normally, or by the exception of a failed write
CloseArchive(p, state) == Put(fs, p, Archive(fs[p].format, fs[p].entries, state))

-----------------------------------------------------------------------------
(* ci_build.py *)

EXTRA_FILES_TO_ZIP == <<<<"README.md">>, <<"LICENSE">>, <<"CHANGELOG.md">>>>
PKG_NAME == <<"yamis">>

linux == <<"l", "i", "n", "u", "x">>
windows == <<"w", "i", "n", "d", "o", "w", "s">>

\* line 73: if "linux" in target -> tar_files, else zip_files
ArchiveFormat(target) == IF Contains(linux, target) THEN "tar.gz" ELSE "zip"

\* lines 68-70
BinName(target) ==
    IF Contains(windows, target) THEN PKG_NAME \o <<".exe">> ELSE PKG_NAME

\* line 71: os.path.join(target_dir, target, "release", bin_name)
BinaryPath(a) == a.target_dir \o <<a.target, <<"release">>, BinName(a.target)>>

\* lines 35 and 48: f"{PKG_NAME}-{version}-{target}.zip" / ".tar.gz"
ArchiveName(a) ==
    PKG_NAME \o <<"-">> \o a.version \o <<"-">> \o a.target
        \o <<".", ArchiveFormat(a.target)>>

\* lines 36 and 49: os.path.join(final_dir, zip_name)
ArchivePath(a) == a.final_dir \o <<ArchiveName(a)>>

\* the binary stored under the path it was read from
BinaryArcnameFullPath(binary) == binary

\* the arcname of the binary: os.path.basename(binary)
BinaryArcname(binary) == <<Basename(binary)>>

\* the arcname of an extra file written without one: the path it was given
ExtraArcname(file) == <<file>>

\* lines 23-24: os.path.join(final_dir, os.path.basename(filepath) + ".sha256")
HashPath(filepath, final_dir) == final_dir \o <<Basename(filepath) \o <<".sha256">>>>

\* lines 11-17: the digest of the file's content, as an uninterpreted value
Sha256(content) == <<"sha256", content>>

\* lines 26-28: the digest, two spaces, the file's name
HashRecord(filepath) ==
    [kind |-> "text",
     content |-> <<Sha256(fs[filepath]), <<"  ">>, Basename(filepath)>>]

\* the release build without check=True: its exit status is ignored
CiBuildUnchecked ==
    /\ script = "ci_build" /\ pc = "build"
    /\ \E rc \in {0, 1} :
          calls' = Append(calls,
              Call(<<<<"cargo">>, <<"build">>, <<"--release">>, <<"--target">>,
                     argv.target, <<"--target-dir">>>> \o argv.target_dir, rc))
    /\ \E made \in BOOLEAN :
          fs' = IF made THEN Put(fs, BinaryPath(argv), File) ELSE fs
    /\ pc' = "mkdir"
    /\ UNCHANGED <<script, err, argv, writes, result, binaries, dirs_to_merge, i, k>>

\* lines 60-63: cargo build --release, check=True; the build may leave the binary
CiBuild ==
    /\ script = "ci_build" /\ pc = "build"
    /\ \E rc \in {0, 1} :
          /\ calls' = Append(calls,
                 Call(<<<<"cargo">>, <<"build">>, <<"--release">>, <<"--target">>,
                        argv.target, <<"--target-dir">>>> \o argv.target_dir, rc))
          /\ IF rc = 0
             THEN /\ \E made \in BOOLEAN :
                        fs' = IF made THEN Put(fs, BinaryPath(argv), File) ELSE fs
                  /\ pc' = "mkdir" /\ err' = err
             ELSE /\ pc' = "failed" /\ err' = "CalledProcessError"
                  /\ fs' = fs
    /\ UNCHANGED <<script, argv, writes, result, binaries, dirs_to_merge, i, k>>

\* lines 65-66: if not os.path.exists(final_dir): os.mkdir(final_dir)
CiMkdir ==
    /\ script = "ci_build" /\ pc = "mkdir"
    /\ IF Exists(argv.final_dir)
       THEN fs' = fs /\ writes' = writes
       ELSE /\ fs' = Put(fs, argv.final_dir, Dir)
            /\ writes' = Append(writes, Write("mkdir", 0, argv.final_dir))
    /\ pc' = "open"
    /\ UNCHANGED <<script, err, argv, calls, result, binaries, dirs_to_merge, i, k>>

\* lines 37 and 50: the archive file is created when it is opened for writing
CiOpen ==
    /\ script = "ci_build" /\ pc = "open"
    /\ fs' = Put(fs, ArchivePath(argv), Archive(ArchiveFormat(argv.target), <<>>, "open"))
    /\ writes' = Append(writes, Write("archive", 0, ArchivePath(argv)))
    /\ pc' = "add_binary"
    /\ UNCHANGED <<script, err, argv, calls, result, binaries, dirs_to_merge, i, k>>

\* lines 38 and 51: the binary goes in first, under its base name
CiAddBinary ==
    /\ script = "ci_build" /\ pc = "add_binary"
    /\ IF Exists(BinaryPath(argv))
       THEN /\ fs' = AddEntry(ArchivePath(argv), BinaryArcname(BinaryPath(argv)))
            /\ pc' = "add_extra" /\ err' = err
       ELSE /\ fs' = CloseArchive(ArchivePath(argv), "aborted")
            /\ pc' = "failed" /\ err' = "FileNotFoundError"
    /\ k' = 1
    /\ UNCHANGED <<script, argv, calls, writes, result, binaries, dirs_to_merge, i>>

\* lines 39-40 and 52-53: one iteration of the loop over EXTRA_FILES_TO_ZIP
CiAddExtra ==
    /\ script = "ci_build" /\ pc = "add_extra"
    /\ LET file == EXTRA_FILES_TO_ZIP[k] IN
       IF Exists(<<file>>)
       THEN /\ fs' = AddEntry(ArchivePath(argv), ExtraArcname(file))
            /\ k' = k + 1
            /\ pc' = IF k < Len(EXTRA_FILES_TO_ZIP) THEN "add_extra" ELSE "close"
            /\ err' = err
       ELSE /\ fs' = CloseArchive(ArchivePath(argv), "aborted")
            /\ k' = k
            /\ pc' = "failed" /\ err' = "FileNotFoundError"
    /\ UNCHANGED <<script, argv, calls, writes, result, binaries, dirs_to_merge, i>>

\* the end of the with-block of lines 37-40 and 50-53
CiClose ==
    /\ script = "ci_build" /\ pc = "close"
    /\ fs' = CloseArchive(ArchivePath(argv), "complete")
    /\ pc' = "hash"
    /\ UNCHANGED <<script, err, argv, calls, writes, result, binaries,
                   dirs_to_merge, i, k>>

\* lines 41 and 54: create_hash_file(zip_path, final_dir), lines 20-28
CiHash ==
    /\ script = "ci_build" /\ pc = "hash"
    /\ LET hash_filepath == HashPath(ArchivePath(argv), argv.final_dir) IN
       /\ fs' = Put(fs, hash_filepath, HashRecord(ArchivePath(argv)))
       /\ writes' = Append(writes, Write("hash", 0, hash_filepath))
    /\ pc' = "done"
    /\ UNCHANGED <<script, err, argv, calls, result, binaries, dirs_to_merge, i, k>>

-----------------------------------------------------------------------------
(* zip_releases.py *)

BASE_BINARIES_PATH == <<"target_releases">>
BASE_RELEASE_PATH == <<"releases">>

BINARIES ==
    <<[arch |-> <<"x86_64-apple-darwin">>, binary |-> <<"yamis">>],
      [arch |-> <<"x86_64-pc-windows-gnu">>, binary |-> <<"yamis.exe">>],
      [arch |-> <<"x86_64-unknown-linux-gnu">>, binary |-> <<"yamis">>]>>

EXTRA == <<<<"README.md">>, <<"LICENSE">>, <<"CHANGELOG.MD">>>>

\* line 25: os.path.join(BASE_BINARIES_PATH, f"v{version}", architecture, "release", binary)
ZipBinaryPath(version, b) ==
    <<BASE_BINARIES_PATH, <<"v">> \o version, b.arch, <<"release">>, b.binary>>

\* line 26: os.path.join(BASE_RELEASE_PATH, f"v{version}")
ZipDir(version) == <<BASE_RELEASE_PATH, <<"v">> \o version>>

\* line 27: f"{architecture}-v{version}.zip"
ZipName(version, b) == b.arch \o <<"-v">> \o version \o <<".zip">>

\* line 31: os.path.join(zip_dir, zip_name)
ZipPath(version, b) == ZipDir(version) \o <<ZipName(version, b)>>

\* line 29: os.makedirs(zip_dir, exist_ok=True)
ZipMakedirs ==
    /\ script = "zip_releases" /\ pc = "makedirs"
    /\ LET zip_dir == ZipDir(argv.version) IN
       IF Exists(zip_dir)
       THEN fs' = fs /\ writes' = writes
       ELSE /\ fs' = Put(Put(fs, <<BASE_RELEASE_PATH>>, Dir), zip_dir, Dir)
            /\ writes' = Append(writes, Write("makedirs", i, zip_dir))
    /\ pc' = "open"
    /\ UNCHANGED <<script, err, argv, calls, result, binaries, dirs_to_merge, i, k>>

\* line 31: ZipFile(..., "w") creates the archive file
ZipOpen ==
    /\ script = "zip_releases" /\ pc = "open"
    /\ LET path == ZipPath(argv.version, BINARIES[i]) IN
       /\ fs' = Put(fs, path, Archive("zip", <<>>, "open"))
       /\ writes' = Append(writes, Write("archive", i, path))
    /\ pc' = "add_binary"
    /\ UNCHANGED <<script, err, argv, calls, result, binaries, dirs_to_merge, i, k>>

\* a missing binary skipped instead of raised: the loop goes on to the next target
ZipAddBinarySkipMissing ==
    /\ script = "zip_releases" /\ pc = "add_binary"
    /\ LET b == BINARIES[i]
           path == ZipPath(argv.version, b) IN
       IF Exists(ZipBinaryPath(argv.version, b))
       THEN /\ fs' = AddEntry(path, <<b.binary>>)
            /\ pc' = "add_extra" /\ i' = i
       ELSE /\ fs' = CloseArchive(path, "aborted")
            /\ i' = i + 1
            /\ pc' = IF i < Len(BINARIES) THEN "makedirs" ELSE "done"
    /\ k' = 1
    /\ UNCHANGED <<script, err, argv, calls, writes, result, binaries, dirs_to_merge>>

\* line 32: zip_obj.write(binary_path, binary)
ZipAddBinary ==
    /\ script = "zip_releases" /\ pc = "add_binary"
    /\ LET b == BINARIES[i]
           path == ZipPath(argv.version, b) IN
       IF Exists(ZipBinaryPath(argv.version, b))
       THEN /\ fs' = AddEntry(path, <<b.binary>>)
            /\ pc' = "add_extra" /\ err' = err
       ELSE /\ fs' = CloseArchive(path, "aborted")
            /\ pc' = "failed" /\ err' = "FileNotFoundError"
    /\ k' = 1
    /\ UNCHANGED <<script, argv, calls, writes, result, binaries, dirs_to_merge, i>>

\* lines 33-34: one iteration of the loop over EXTRA
ZipAddExtra ==
    /\ script = "zip_releases" /\ pc = "add_extra"
    /\ LET path == ZipPath(argv.version, BINARIES[i])
           extra == EXTRA[k] IN
       IF Exists(<<extra>>)
       THEN /\ fs' = AddEntry(path, ExtraArcname(extra))
            /\ k' = k + 1
            /\ pc' = IF k < Len(EXTRA) THEN "add_extra" ELSE "close"
            /\ err' = err
       ELSE /\ fs' = CloseArchive(path, "aborted")
            /\ k' = k
            /\ pc' = "failed" /\ err' = "FileNotFoundError"
    /\ UNCHANGED <<script, argv, calls, writes, result, binaries, dirs_to_merge, i>>

\* the end of the with-block of lines 31-34, then the next target of lines 39-40
ZipClose ==
    /\ script = "zip_releases" /\ pc = "close"
    /\ fs' = CloseArchive(ZipPath(argv.version, BINARIES[i]), "complete")
    /\ i' = i + 1
    /\ pc' = IF i < Len(BINARIES) THEN "makedirs" ELSE "done"
    /\ UNCHANGED <<script, err, argv, calls, writes, result, binaries,
                   dirs_to_merge, k>>

-----------------------------------------------------------------------------
(* The inputs of a run *)

Versions == {<<"1.4.0">>, <<"2.0.0-rc1">>}

x86_64 == <<"x", "8", "6", "_", "6", "4">>
aarch64 == <<"a", "a", "r", "c", "h", "6", "4">>
unknown == <<"u", "n", "k", "n", "o", "w", "n">>
apple == <<"a", "p", "p", "l", "e">>
vendor_pc == <<"p", "c">>
darwin == <<"d", "a", "r", "w", "i", "n">>
os_none == <<"n", "o", "n", "e">>
gnu == <<"g", "n", "u">>
linuxkernel == linux \o <<"k", "e", "r", "n", "e", "l">>
Dash == <<"-">>

\* target triples <arch>-<vendor>-<os>[-<abi>]
Triples ==
    {arch \o Dash \o vendor \o Dash \o os \o abi :
        arch \in {x86_64, aarch64},
        vendor \in {unknown, apple, vendor_pc},
        os \in {linux, windows, darwin, os_none},
        abi \in {<<>>, Dash \o gnu, Dash \o linuxkernel}}

TargetDirs == {<<<<"target">>>>}
FinalDirs == {<<<<"dist">>>>}

\* a working directory holding the files of present (a set of paths)
FilesAt(present) == [p \in present |-> File]

Range(seq) == {seq[j] : j \in 1..Len(seq)}

InitCov ==
    /\ script = "generate_cov"
    /\ pc = "reset"
    /\ argv = <<>>
    /\ fs = NoFiles
    /\ i = 0

InitCi ==
    /\ script = "ci_build"
    /\ pc = "build"
    /\ argv \in [target_dir : TargetDirs, target : Triples,
                  version : Versions, final_dir : FinalDirs]
    /\ \E present \in SUBSET {<<f>> : f \in Range(EXTRA_FILES_TO_ZIP)},
          staged \in SUBSET FinalDirs :
          fs = FilesAt(present) @@ [p \in staged |-> Dir]
    /\ i = 0

InitZip ==
    /\ script = "zip_releases"
    /\ pc = "makedirs"
    /\ argv \in [version : Versions]
    /\ \E present \in SUBSET {<<f>> : f \in Range(EXTRA)},
          built \in SUBSET {ZipBinaryPath(argv.version, BINARIES[j]) :
                                j \in 1..Len(BINARIES)} :
          fs = FilesAt(present \cup built)
    /\ i = 1

Init ==
    /\ err = ""
    /\ calls = <<>>
    /\ writes = <<>>
    /\ result = <<>>
    /\ binaries = <<>>
    /\ dirs_to_merge = <<>>
    /\ k = 0
    /\ (InitCov \/ InitCi \/ InitZip)

Next ==
    \/ CovReset
    \/ CovBuild
    \/ CovParse
    \/ CovRun
    \/ CovMerge
    \/ CiBuild
    \/ CiMkdir
    \/ CiOpen
    \/ CiAddBinary
    \/ CiAddExtra
    \/ CiClose
    \/ CiHash
    \/ ZipMakedirs
    \/ ZipOpen
    \/ ZipAddBinary
    \/ ZipAddExtra
    \/ ZipClose

Spec == Init /\ [][Next]_vars

-----------------------------------------------------------------------------
(* Properties of the coverage pipeline *)

IsCov == script = "generate_cov"
Exited == pc \in {"done", "failed"}

IsKcov(c) == Len(c.args) >= 2 /\ c.args[1] = <<"kcov">>
IsRunCall(c) == IsKcov(c) /\ c.args[2] = <<"--verify">>
IsMergeCall(c) == IsKcov(c) /\ c.args[2] = <<"--merge">>
IsResetCall(c) == c.args = <<<<"rm -R ">> \o TEST_DIR>>

RunCalls == SelectSeq(calls, IsRunCall)
MergeCalls == SelectSeq(calls, IsMergeCall)

\* C2: the merge is invoked at most once, as the last command, and only when
\* every discovered binary (in order) has had a coverage run that returned 0; a
\* failed coverage run is the last one started and no merge is ever invoked
\* after it.
C2_MergeAfterAllRuns ==
    IsCov =>
        /\ Len(MergeCalls) <= 1
        /\ Len(RunCalls) <= Len(binaries)
        /\ \A j \in 1..Len(RunCalls) : RunCalls[j].args[5] = binaries[j]
        /\ Len(MergeCalls) = 1 =>
              /\ IsMergeCall(calls[Len(calls)])
              /\ Len(RunCalls) = Len(binaries)
              /\ \A j \in 1..Len(RunCalls) : RunCalls[j].rc = 0
        /\ \A j \in 1..Len(RunCalls) :
              RunCalls[j].rc # 0 =>
                  /\ j = Len(RunCalls)
                  /\ MergeCalls = <<>>
                  /\ pc = "failed"

\* a run that merged the coverage of two or more binaries
C2_Witness ==
    /\ IsCov /\ Len(binaries) >= 2
    /\ Len(MergeCalls) = 1 /\ MergeCalls[1].rc = 0 /\ pc = "done"

\* the test build returned 0 and its output was captured
Captured == Len(calls) >= 2 /\ calls[2].rc = 0

\* a line of the text that, trimmed, starts with the marker
HasMarkerLine(text) ==
    LET raw == SplitOn(text, "\n")
    IN  \E j \in 1..Len(raw) : StartsWith(Strip(raw[j], Whitespace), Executable)

\* C3: when the captured build output has no line that (trimmed, as the
\* discovery trims it) starts with "Executable", the run ends in failure with
\* exit status 1 and neither a coverage run nor the merge is ever invoked.
C3_ZeroBinariesAbort ==
    (IsCov /\ Captured /\ pc # "parse" /\ ~HasMarkerLine(result)) =>
        /\ pc = "failed" /\ err = "exit(1)"
        /\ RunCalls = <<>> /\ MergeCalls = <<>>

\* a build that succeeded, printed something, and named no executable
C3_Witness ==
    /\ IsCov /\ pc = "failed" /\ err = "exit(1)"
    /\ result # <<>> /\ calls[Len(calls)].rc = 0

NoRepeatedCall ==
    \A a, b \in 1..Len(calls) : a # b => calls[a].args # calls[b].args

\* C4 as stated: every command that returns non-zero (the reset included) is
\* the last command of the run, the run ends in failure, and no command is
\* invoked twice with the same arguments.
C4_EveryFailureFatal ==
    IsCov =>
        /\ \A j \in 1..Len(calls) :
              calls[j].rc # 0 => (j = Len(calls) /\ pc = "failed")
        /\ NoRepeatedCall

\* C4 amended: every command other than the work-directory reset that returns
\* non-zero is the last command of the run and the run ends in failure; the
\* reset's exit status is ignored and the test build is invoked after it
\* whatever it returned; no command is invoked twice with the same arguments.
C4_CheckedFailureFatal ==
    IsCov =>
        /\ \A j \in 1..Len(calls) :
              (calls[j].rc # 0 /\ ~IsResetCall(calls[j])) =>
                  (j = Len(calls) /\ pc = "failed" /\ err = "CalledProcessError")
        /\ \A j \in 1..Len(calls) : IsResetCall(calls[j]) <=> j = 1
        /\ (Len(calls) = 1 /\ calls[1].rc # 0) => pc = "build"
        /\ NoRepeatedCall

\* the reset failed, the build went on, and a later coverage run was fatal
C4_Witness ==
    /\ IsCov /\ pc = "failed" /\ err = "CalledProcessError"
    /\ calls[1].rc # 0 /\ Len(calls) >= 4

IsWs(c) == c \in Whitespace

\* the last maximal run of non-whitespace characters of a line
LastWsToken(line) ==
    LET t == RStrip(line, Whitespace)
        starts == {j \in 1..(Len(t) + 1) : \A x \in j..Len(t) : ~IsWs(t[x])}
        from == CHOOSE j \in starts : \A x \in starts : j <= x
    IN  SubSeq(t, from, Len(t))

\* the discovery as C9 words it
SpecBinaries(text) ==
    LET raw   == SplitOn(text, "\n")
        kept  == SelectSeq(raw,
                     LAMBDA line : StartsWith(Strip(line, Whitespace), Executable))
    IN  [j \in 1..Len(kept) |-> Strip(LastWsToken(kept[j]), {"(", ")"})]

\* C9: the discovered binaries are, in line order, one path per line that
\* trimmed starts with "Executable": the last whitespace-separated token of the
\* line with its surrounding parentheses removed.
C9_DiscoveryParsing ==
    (IsCov /\ Captured /\ pc # "parse") =>
        binaries = SpecBinaries(result)

\* the paths the per-binary runs wrote to, in the order of the runs
RunDirs ==
    LET w == SelectSeq(writes, LAMBDA x : x.step = "kcov")
    IN  [j \in 1..Len(w) |-> w[j].path]

NoPathWrittenTwice ==
    \A a, b \in 1..Len(writes) : a # b => writes[a].path # writes[b].path

\* C10: no output path is written by two steps of a run; the per-binary
\* coverage directories are pairwise distinct and differ from the merged
\* directory; the merge is given exactly the directories the runs wrote, in
\* index order; the archive paths of the static targets are pairwise distinct.
C10_SingleWriter ==
    /\ NoPathWrittenTwice
    /\ IsCov =>
          /\ \A j \in 1..Len(RunDirs) :
                /\ RunDirs[j] = CovOut(j - 1)
                /\ RunDirs[j] # COV_OUT_DIR
                /\ \A x \in 1..Len(RunDirs) : x # j => RunDirs[x] # RunDirs[j]
          /\ \A j \in 1..Len(MergeCalls) :
                /\ MergeCalls[j].args[3] = COV_OUT_DIR
                /\ SubSeq(MergeCalls[j].args, 4, Len(MergeCalls[j].args)) = RunDirs
    /\ script = "zip_releases" =>
          \A a, b \in 1..Len(BINARIES) :
              a # b => ZipPath(argv.version, BINARIES[a]) # ZipPath(argv.version, BINARIES[b])

\* a merge over the directories of two or more runs
C10_Witness ==
    /\ IsCov /\ Len(MergeCalls) = 1 /\ Len(RunDirs) >= 2
    /\ Len(writes) = Len(RunDirs) + 1

-----------------------------------------------------------------------------
(* Properties of the release scripts *)

IsCi == script = "ci_build"
IsZip == script = "zip_releases"

Archives == {p \in DOMAIN fs : fs[p].kind = "archive"}
HashRecords == {p \in DOMAIN fs : fs[p].kind = "text"}

BuildSucceeded == Len(calls) >= 1 /\ calls[1].rc = 0
BuildFailed == Len(calls) >= 1 /\ calls[1].rc # 0

\* C1: when the build succeeded but left no binary at the conventional path,
\* the invocation fails and neither an archive file nor a hash-record file has
\* been written to the output directory.
C1_MissingBinaryWritesNothing ==
    (IsCi /\ Exited /\ BuildSucceeded /\ ~Exists(BinaryPath(argv))) =>
        /\ pc = "failed"
        /\ Archives = {}
        /\ HashRecords = {}

\* the steps that wrote, in order
WriteSteps == [j \in 1..Len(writes) |-> writes[j].step]

\* C6: the steps happen in the order build, ensure the output directory,
\* archive, hash record; a hash record exists only when the archive it names is
\* completely written; a successful invocation ends with exactly one archive
\* and exactly one hash record, named <archive name>.sha256; after a failed
\* build nothing is created.
C6_OrchestratorOrder ==
    IsCi =>
        /\ WriteSteps \in {<<>>, <<"mkdir">>, <<"archive">>, <<"mkdir", "archive">>,
                            <<"archive", "hash">>, <<"mkdir", "archive", "hash">>}
        /\ writes # <<>> => BuildSucceeded
        /\ Archives # {} => Exists(argv.final_dir)
        /\ \A h \in HashRecords :
              \E a \in Archives :
                  /\ fs[a].state = "complete"
                  /\ h = argv.final_dir \o <<Basename(a) \o <<".sha256">>>>
                  /\ fs[h].content = <<Sha256(fs[a]), <<"  ">>, Basename(a)>>
        /\ pc = "done" =>
              /\ Cardinality(Archives) = 1
              /\ Cardinality(HashRecords) = 1
              /\ \A a \in Archives : SubSeq(a, 1, Len(a) - 1) = argv.final_dir
        /\ BuildFailed =>
              /\ pc = "failed" /\ writes = <<>>
              /\ Archives = {} /\ HashRecords = {}

\* a successful packaging into an output directory the run had to create
C6_Witness ==
    IsCi /\ pc = "done" /\ WriteSteps = <<"mkdir", "archive", "hash">>

\* the third component of <arch>-<vendor>-<os>[-<abi>]
OsComponent(target) == SplitOn(target, "-")[3]

\* C7: the archive is a tar.gz exactly when the OS component of the target
\* triple is "linux", and a zip for every other triple.
C7_FormatByOsComponent ==
    IsCi =>
        \A a \in Archives :
            /\ fs[a].format \in {"tar.gz", "zip"}
            /\ fs[a].format = "tar.gz" <=> OsComponent(argv.target) = linux

\* the entry names an archive of the binary and the extra files must hold
Expected(binary, extras) ==
    <<<<Basename(binary)>>>> \o [j \in 1..Len(extras) |-> <<Basename(<<extras[j]>>)>>]

\* the binary and the extra files of the archive at path a
ExpectedAt(a) ==
    IF IsCi
    THEN Expected(BinaryPath(argv), EXTRA_FILES_TO_ZIP)
    ELSE LET j == CHOOSE x \in 1..Len(BINARIES) : ZipPath(argv.version, BINARIES[x]) = a
         IN  Expected(ZipBinaryPath(argv.version, BINARIES[j]), EXTRA)

\* C8: a completely written archive holds exactly the binary under its base
\* filename, first, followed by the extra files under their base filenames,
\* and nothing else; no entry keeps a directory.
C8_ArchiveCompleteness ==
    \A a \in Archives :
        fs[a].state = "complete" =>
            /\ fs[a].entries = ExpectedAt(a)
            /\ \A j \in 1..Len(fs[a].entries) : Len(fs[a].entries[j]) = 1

\* a finished ci_build archive of a windows target, and a finished release zip
C8_Witness ==
    \/ /\ IsCi /\ pc = "done" /\ Contains(windows, argv.target)
       /\ \E a \in Archives : fs[a].entries[1] = <<PKG_NAME \o <<".exe">>>>
    \/ /\ IsZip /\ pc = "done" /\ Cardinality(Archives) = Len(BINARIES)

Staged(j) == Exists(ZipBinaryPath(argv.version, BINARIES[j]))
ExtrasPresent == \A j \in 1..Len(EXTRA) : Exists(<<EXTRA[j]>>)
Missing == {j \in 1..Len(BINARIES) : ~Staged(j)}
FirstMissing == CHOOSE j \in Missing : \A x \in Missing : j <= x

\* C5: the targets are packaged in list order; when the binary of the k-th
\* target is the first one missing, no archive is ever created for a target
\* after the k-th, and (the extra files being there) the run fails at the k-th
\* target with the archives of all earlier targets completely written.
C5_FailFast ==
    (IsZip /\ Missing # {}) =>
        /\ i <= FirstMissing
        /\ \A j \in 1..Len(BINARIES) :
              j > FirstMissing => ~Exists(ZipPath(argv.version, BINARIES[j]))
        /\ (Exited /\ ExtrasPresent) =>
              /\ pc = "failed" /\ err = "FileNotFoundError"
              /\ i = FirstMissing
              /\ \A j \in 1..(FirstMissing - 1) :
                    /\ Exists(ZipPath(argv.version, BINARIES[j]))
                    /\ fs[ZipPath(argv.version, BINARIES[j])].state = "complete"

\* the first target was packaged, the second has no binary, the third has one
C5_Witness ==
    /\ IsZip /\ pc = "failed" /\ ExtrasPresent
    /\ Missing = {2}
    /\ fs[ZipPath(argv.version, BINARIES[1])].state = "complete"

=============================================================================
